---- MODULE Spec2Model ----
(***************************************************************************)
(* The e-commerce backend: the psycopg2 cart/checkout handlers of          *)
(* app/routes/cart.py running as concurrent request workers over one       *)
(* PostgreSQL store (READ COMMITTED, one transaction per request, see      *)
(* app/db.py get_conn), and the SQLAlchemy checkout of app/routes/orders.py.*)
(*                                                                         *)
(* A request is run statement by statement.  A statement reads the         *)
(* committed rows plus the rows its own transaction wrote; the writes of a *)
(* transaction are kept in tx[p] with the concrete rows they touched and   *)
(* reach the store at COMMIT (get_conn, db.py:73) or are dropped at        *)
(* ROLLBACK (db.py:75).  A write waits while another open transaction      *)
(* holds the lock of a row it touches.                                     *)
(***************************************************************************)
EXTENDS Integers, Sequences, FiniteSets, TLC

\* ------------------------------------------------------------------ bounds
NProducts == 2
MaxStock == 2
MaxReserved == 1
MaxCarts == 2
MaxQty == 2
MaxRequests == 2

Procs == {1, 2}
Users == {1, 2}
Products == 1..NProducts
\* a request may name a product id that is not in the catalog
ProductIds == 1..(NProducts + 1)
CartIds == 1..MaxCarts
NoUser == 0

VARIABLES
    products,     \* products table: id -> [active, price_cents]
    inventory,    \* inventory table: product_id -> [tracked, quantity, reserved]
    carts,        \* carts table: id -> [status, user_id]; status "none": no row
    cart_items,   \* cart_items table: set of rows
    orders,       \* orders table: set of rows
    order_items,  \* order_items table: set of rows
    seq,          \* the id sequences of the tables (not transactional)
    pc,           \* per worker: the statement it is about to run
    req,          \* per worker: the request it serves
    loc,          \* per worker: the handler's local variables
    tx,           \* per worker: the writes of its open transaction
    resp,         \* per worker: the response it returns
    nreq,         \* requests accepted so far
    users,        \* users table: set of rows [id, email, password_hash]
    now           \* the clock the token serializer reads

vars == <<products, inventory, carts, cart_items, orders, order_items, seq,
          pc, req, loc, tx, resp, nreq, users, now>>

\* the accounts and the clock, which the cart and order handlers never write
authvars == <<users, now>>

dbvars == <<products, inventory, carts, cart_items, orders, order_items>>

\* ------------------------------------------------------------- the store

\* The committed rows, as one value.
Committed ==
    [inventory |-> inventory, carts |-> carts, cart_items |-> cart_items,
     orders |-> orders, order_items |-> order_items]

NoRow == [tracked |-> FALSE, quantity |-> 0, reserved |-> 0]
NoCart == [status |-> "none", user_id |-> NoUser]

\* One write statement, with the rows it touched and the row locks it took
\* when it ran.
Op(k, id, n, row, ids, locks) ==
    [k |-> k, id |-> id, n |-> n, row |-> row, ids |-> ids, locks |-> locks]

\* The effect of one write on the tables D.
ApplyOp(D, o) ==
    CASE o.k = "inv_dec" ->
           IF D.inventory[o.id].tracked
           THEN [D EXCEPT !.inventory[o.id].quantity = @ - o.n]
           ELSE D
      [] o.k = "ci_insert" -> [D EXCEPT !.cart_items = @ \cup {o.row}]
      [] o.k = "ci_addqty" ->
           [D EXCEPT !.cart_items =
               {IF r.id = o.id THEN [r EXCEPT !.quantity = @ + o.n] ELSE r : r \in @}]
      [] o.k = "ci_setqty" ->
           [D EXCEPT !.cart_items =
               {IF r.id = o.id THEN [r EXCEPT !.quantity = o.n] ELSE r : r \in @}]
      [] o.k = "ci_delete" ->
           [D EXCEPT !.cart_items = {r \in @ : r.id \notin o.ids}]
      [] o.k = "cart_insert" ->
           [D EXCEPT !.carts[o.id] = [status |-> "open", user_id |-> NoUser]]
      [] o.k = "cart_status" -> [D EXCEPT !.carts[o.id].status = o.row]
      [] o.k = "cart_touch" -> D
      [] o.k = "order_insert" -> [D EXCEPT !.orders = @ \cup {o.row}]
      [] o.k = "oi_insert" -> [D EXCEPT !.order_items = @ \cup o.ids]

RECURSIVE ApplyAll(_, _)
ApplyAll(D, ops) ==
    IF ops = <<>> THEN D ELSE ApplyAll(ApplyOp(D, Head(ops)), Tail(ops))

\* What worker p's statements see: the committed rows and its own writes.
View(p) == ApplyAll(Committed, tx[p])

\* The row locks a transaction holds until it ends.
LocksOf(ops) == UNION {ops[i].locks : i \in 1..Len(ops)}

\* Some other open transaction holds one of the locks ls.
Blocked(p, ls) == \E q \in Procs \ {p} : LocksOf(tx[q]) \cap ls # {}

InventoryLock(x) == <<"inventory", x, 0>>
CartLock(c) == <<"carts", c, 0>>
CartItemLock(c, x) == <<"cart_items", c, x>>

\* ------------------------------------------------------ cart.py: queries

\* SELECT ... FROM carts WHERE id=%s; NoCart stands for None.
_cart_exists_open(V, cart_id) ==
    IF cart_id \in CartIds THEN V.carts[cart_id] ELSE NoCart

\* COALESCE(i.quantity, 0), COALESCE(i.reserved, 0) of the LEFT JOIN inventory.
CoalesceQuantity(V, x) == IF V.inventory[x].tracked THEN V.inventory[x].quantity ELSE 0
CoalesceReserved(V, x) == IF V.inventory[x].tracked THEN V.inventory[x].reserved ELSE 0

NoProduct ==
    [found |-> FALSE, id |-> 0, price_cents |-> 0, active |-> FALSE,
     quantity |-> 0, reserved |-> 0]

_get_product_for_sale(V, product_id) ==
    IF product_id \in Products /\ products[product_id].found
    THEN [found |-> TRUE, id |-> product_id,
          price_cents |-> products[product_id].price_cents,
          active |-> products[product_id].active,
          quantity |-> CoalesceQuantity(V, product_id),
          reserved |-> CoalesceReserved(V, product_id)]
    ELSE NoProduct

\* The select list of the cart-items query, in order, as (column name, value).
\* ci.quantity and COALESCE(i.quantity, 0) AS quantity carry the same name.
CartItemColumns(V, ci) ==
    << <<"id", ci.id>>,
       <<"cart_id", ci.cart_id>>,
       <<"product_id", ci.product_id>>,
       <<"quantity", ci.quantity>>,
       <<"unit_price_cents", ci.unit_price_cents>>,
       <<"active", products[ci.product_id].active>>,
       <<"quantity", CoalesceQuantity(V, ci.product_id)>>,
       <<"reserved", CoalesceReserved(V, ci.product_id)>>,
       <<"price_cents", products[ci.product_id].price_cents>> >>

\* psycopg2's RealDictCursor row: a dict keyed by column name, filled in
\* column order, so of two columns with one name the later one stays.
RealDictRow(cols) ==
    [n \in {cols[i][1] : i \in DOMAIN cols} |->
        LET last == CHOOSE i \in DOMAIN cols :
                        /\ cols[i][1] = n
                        /\ \A j \in DOMAIN cols : cols[j][1] = n => j <= i
        IN cols[last][2]]

\* ORDER BY id ASC.
RECURSIVE OrderById(_)
OrderById(rows) ==
    IF rows = {} THEN <<>>
    ELSE LET first == CHOOSE r \in rows : \A s \in rows : r.id <= s.id
         IN <<first>> \o OrderById(rows \ {first})

RECURSIVE _compute_cart_subtotal(_)
_compute_cart_subtotal(items) ==
    IF items = <<>> THEN 0
    ELSE Head(items).quantity * Head(items).unit_price_cents
         + _compute_cart_subtotal(Tail(items))

\* One entry of cart["items"], built from the dict row r.
CartItemOut(r) ==
    [id |-> r["id"], cart_id |-> r["cart_id"], product_id |-> r["product_id"],
     quantity |-> r["quantity"], unit_price_cents |-> r["unit_price_cents"],
     product |-> [id |-> r["product_id"], price_cents |-> r["price_cents"],
                  active |-> r["active"], quantity |-> r["quantity"],
                  reserved |-> r["reserved"]]]

NoCartFull == [found |-> FALSE, status |-> "none", items |-> <<>>, subtotal_cents |-> 0]

_get_cart_with_items(V, cart_id) ==
    LET cart == _cart_exists_open(V, cart_id) IN
    IF cart.status = "none" THEN NoCartFull
    ELSE LET rows == OrderById({ci \in V.cart_items : ci.cart_id = cart_id})
             items == [i \in DOMAIN rows |->
                          CartItemOut(RealDictRow(CartItemColumns(V, rows[i])))]
         IN [found |-> TRUE, status |-> cart.status, items |-> items,
             subtotal_cents |-> _compute_cart_subtotal(items)]

\* ------------------------------------------------- requests and workers

NoHeader == [scheme |-> "none", sub |-> 0, iat |-> 0, signed |-> FALSE]
NoReq ==
    [op |-> "none", cart_id |-> 0, product_id |-> 0, quantity |-> 0, user_id |-> 0,
     header |-> NoHeader, email |-> "", password |-> "", sku |-> "", order_id |-> 0,
     page |-> 0, page_size |-> 0]
NoLoc ==
    [cart_full |-> NoCartFull, i |-> 0, price_cents |-> 0,
     order_row |-> <<>>, items_out |-> <<>>]
NoResp == [status |-> 0, kind |-> "none", body |-> <<>>]

Ops == {"create", "get", "add", "put", "remove", "clear", "checkout"}

FirstStatement(op) ==
    CASE op = "create" -> "create_insert"
      [] op = "get" -> "get_read"
      [] op = "add" -> "add_cart"
      [] op = "put" -> "put_cart"
      [] op = "remove" -> "remove_cart"
      [] op = "clear" -> "clear_cart"
      [] op = "checkout" -> "checkout_cart"

\* The request bodies of add and put: quantity is an integer of at least 1.
AddItemRequestSchema(n) == n >= 1
UpdateItemQuantityRequestSchema(n) == n >= 1

\* A view whose body goes to the handler without being loaded through a schema.
arguments_unchecked(op, n) == TRUE

\* @blp.arguments(<schema>): the body is validated before the view runs.
arguments(op, n) ==
    /\ op = "add" => AddItemRequestSchema(n)
    /\ op = "put" => UpdateItemQuantityRequestSchema(n)

\* A worker takes a request; a body that fails its schema is answered 422
\* before the view runs, otherwise get_conn opens the connection.
Begin(p) ==
    /\ pc[p] = "idle"
    /\ nreq < MaxRequests
    /\ \E op \in Ops, c \in CartIds, x \in ProductIds, n \in 0..MaxQty :
          /\ op \in {"create", "get", "clear", "checkout"} => x = 1 /\ n = 1
          /\ op = "remove" => n = 1 /\ x \in Products
          /\ op = "create" => c = 1
          /\ op = "create" =>
                seq.carts + Cardinality({q \in Procs : pc[q] = "create_insert"}) <= MaxCarts
          /\ req' = [req EXCEPT ![p] =
                        [NoReq EXCEPT !.op = op, !.cart_id = c,
                                      !.product_id = x, !.quantity = n]]
          /\ IF arguments(op, n)
             THEN /\ pc' = [pc EXCEPT ![p] = FirstStatement(op)]
                  /\ resp' = [resp EXCEPT ![p] = NoResp]
             ELSE /\ pc' = [pc EXCEPT ![p] = "done"]
                  /\ resp' = [resp EXCEPT ![p] =
                                [status |-> 422, kind |-> "Validation", body |-> <<>>]]
    /\ nreq' = nreq + 1
    /\ loc' = [loc EXCEPT ![p] = NoLoc]
    /\ UNCHANGED <<authvars, dbvars, seq, tx>>

\* return <response> inside the with block: the handler is over and get_conn
\* goes on to commit.
Return(p, status, kind, body) ==
    /\ resp' = [resp EXCEPT ![p] = [status |-> status, kind |-> kind, body |-> body]]
    /\ pc' = [pc EXCEPT ![p] = "commit"]

Goto(p, label) == pc' = [pc EXCEPT ![p] = label]

\* cur.execute of a write: the statement joins the open transaction.
Write(p, o) == tx' = [tx EXCEPT ![p] = Append(@, o)]

\* get_conn: conn.commit() after the with block, then conn.close().
Commit(p) ==
    /\ pc[p] = "commit"
    /\ LET D == ApplyAll(Committed, tx[p]) IN
          /\ inventory' = D.inventory
          /\ carts' = D.carts
          /\ cart_items' = D.cart_items
          /\ orders' = D.orders
          /\ order_items' = D.order_items
    /\ tx' = [tx EXCEPT ![p] = <<>>]
    /\ pc' = [pc EXCEPT ![p] = "done"]
    /\ UNCHANGED <<authvars, products, seq, req, loc, resp, nreq>>

WriteStatements ==
    {"create_insert", "add_upsert", "add_touch", "put_update", "put_touch",
     "remove_delete", "remove_touch", "clear_delete", "clear_touch",
     "checkout_decrement", "checkout_order", "checkout_status", "checkout_delete"}

\* A get_conn that commits on the way out of a raising block instead of
\* rolling back: the statements already executed become visible.
FaultCommits(p) ==
    /\ pc[p] \in WriteStatements
    /\ LET D == ApplyAll(Committed, tx[p]) IN
          /\ inventory' = D.inventory
          /\ carts' = D.carts
          /\ cart_items' = D.cart_items
          /\ orders' = D.orders
          /\ order_items' = D.order_items
    /\ tx' = [tx EXCEPT ![p] = <<>>]
    /\ resp' = [resp EXCEPT ![p] = [status |-> 500, kind |-> "Internal", body |-> <<>>]]
    /\ pc' = [pc EXCEPT ![p] = "done"]
    /\ UNCHANGED <<authvars, products, seq, req, loc, nreq>>

\* get_conn: a write raises (storage fault, lock timeout, deadlock victim);
\* conn.rollback(), the exception propagates and the request answers 500.
Fault(p) ==
    /\ pc[p] \in WriteStatements
    /\ tx' = [tx EXCEPT ![p] = <<>>]
    /\ resp' = [resp EXCEPT ![p] = [status |-> 500, kind |-> "Internal", body |-> <<>>]]
    /\ pc' = [pc EXCEPT ![p] = "done"]
    /\ UNCHANGED <<authvars, dbvars, seq, req, loc, nreq>>

\* The response has left; the worker is free again.
Finish(p) ==
    /\ pc[p] = "done"
    /\ pc' = [pc EXCEPT ![p] = "idle"]
    /\ req' = [req EXCEPT ![p] = NoReq]
    /\ loc' = [loc EXCEPT ![p] = NoLoc]
    /\ resp' = [resp EXCEPT ![p] = NoResp]
    /\ UNCHANGED <<authvars, dbvars, seq, tx, nreq>>

\* cart = _cart_exists_open(cur, cart_id) and the two checks that follow it
\* in every handler that changes a cart.
CartGate(p, label, next) ==
    /\ pc[p] = label
    /\ LET cart == _cart_exists_open(View(p), req[p].cart_id) IN
          IF cart.status = "none" THEN Return(p, 404, "CartNotFound", <<>>)
          ELSE IF cart.status # "open" THEN Return(p, 409, "CartNotOpen", <<>>)
          ELSE Goto(p, next) /\ UNCHANGED resp
    /\ UNCHANGED <<authvars, dbvars, seq, req, loc, tx, nreq>>

\* An availability check that compares the inventory quantity alone and
\* leaves the reserved count out.
ProductGateIgnoresReserved(p, label, next) ==
    /\ pc[p] = label
    /\ LET product == _get_product_for_sale(View(p), req[p].product_id)
           available == product.quantity
       IN IF ~product.found \/ ~product.active
          THEN Return(p, 404, "ProductNotFound", <<>>) /\ UNCHANGED loc
          ELSE IF available < req[p].quantity
          THEN /\ Return(p, 409, "InsufficientInventory",
                         [available |-> available, requested |-> req[p].quantity])
               /\ UNCHANGED loc
          ELSE /\ Goto(p, next)
               /\ loc' = [loc EXCEPT ![p].price_cents = product.price_cents]
               /\ UNCHANGED resp
    /\ UNCHANGED <<authvars, dbvars, seq, req, tx, nreq>>

\* product = _get_product_for_sale(...) and the availability check of add and put.
ProductGate(p, label, next) ==
    /\ pc[p] = label
    /\ LET product == _get_product_for_sale(View(p), req[p].product_id)
           available == product.quantity - product.reserved
       IN IF ~product.found \/ ~product.active
          THEN Return(p, 404, "ProductNotFound", <<>>) /\ UNCHANGED loc
          ELSE IF available < req[p].quantity
          THEN /\ Return(p, 409, "InsufficientInventory",
                         [available |-> available, requested |-> req[p].quantity])
               /\ UNCHANGED loc
          ELSE /\ Goto(p, next)
               /\ loc' = [loc EXCEPT ![p].price_cents = product.price_cents]
               /\ UNCHANGED resp
    /\ UNCHANGED <<authvars, dbvars, seq, req, tx, nreq>>

\* UPDATE carts SET updated_at=NOW() WHERE id=%s
Touch(p, label, next) ==
    /\ pc[p] = label
    /\ ~Blocked(p, {CartLock(req[p].cart_id)})
    /\ Write(p, Op("cart_touch", req[p].cart_id, 0, <<>>, {}, {CartLock(req[p].cart_id)}))
    /\ Goto(p, next)
    /\ UNCHANGED <<authvars, dbvars, seq, req, loc, resp, nreq>>

\* cart_full = _get_cart_with_items(cur, cart_id); return cart_full
ReadBack(p, label) ==
    /\ pc[p] = label
    /\ Return(p, 200, "Cart", _get_cart_with_items(View(p), req[p].cart_id))
    /\ UNCHANGED <<authvars, dbvars, seq, req, loc, tx, nreq>>

\* ------------------------------------------------ cart.py: the handlers

\* POST /carts: INSERT INTO carts(status) VALUES('open') RETURNING id
CartsCollection_post(p) ==
    /\ pc[p] = "create_insert"
    /\ Write(p, Op("cart_insert", seq.carts, 0, <<>>, {}, {CartLock(seq.carts)}))
    /\ seq' = [seq EXCEPT !.carts = @ + 1]
    /\ Return(p, 201, "CartCreated", [cart_id |-> seq.carts])
    /\ UNCHANGED <<authvars, dbvars, req, loc, nreq>>

\* GET /carts/<id>: the cart and its items, or 404 when no such cart.
CartById_get(p) ==
    /\ pc[p] = "get_read"
    /\ LET cart == _get_cart_with_items(View(p), req[p].cart_id)
       IN IF ~cart.found
          THEN Return(p, 404, "CartNotFound", <<>>)
          ELSE Return(p, 200, "Cart", cart)
    /\ UNCHANGED <<authvars, dbvars, seq, req, loc, tx, nreq>>

\* DELETE /carts/<id>: clear the cart's items.
CartById_delete_cart(p) == CartGate(p, "clear_cart", "clear_delete")

\* All of cart c's rows that a statement of p sees.
ItemsOfCart(V, c) == {ci \in V.cart_items : ci.cart_id = c}

CartById_delete_items(p) ==
    /\ pc[p] = "clear_delete"
    /\ LET rows == ItemsOfCart(View(p), req[p].cart_id)
           locks == {CartItemLock(r.cart_id, r.product_id) : r \in rows}
       IN /\ ~Blocked(p, locks)
          /\ Write(p, Op("ci_delete", 0, 0, <<>>, {r.id : r \in rows}, locks))
    /\ Goto(p, "clear_touch")
    /\ UNCHANGED <<authvars, dbvars, seq, req, loc, resp, nreq>>

CartById_delete_touch(p) ==
    /\ pc[p] = "clear_touch"
    /\ ~Blocked(p, {CartLock(req[p].cart_id)})
    /\ Write(p, Op("cart_touch", req[p].cart_id, 0, <<>>, {}, {CartLock(req[p].cart_id)}))
    /\ Return(p, 200, "CartCleared", <<>>)
    /\ UNCHANGED <<authvars, dbvars, seq, req, loc, nreq>>

\* POST /carts/<id>/items: add an item, or add to the quantity of its line.
CartItemsCollection_post_cart(p) == CartGate(p, "add_cart", "add_product")
CartItemsCollection_post_product(p) == ProductGate(p, "add_product", "add_upsert")

\* An upsert whose conflict branch overwrites: DO UPDATE SET quantity =
\* EXCLUDED.quantity.
UpsertOverwrites(V, cart_id, product_id, add_qty, price_cents, new_id) ==
    LET hit == {ci \in V.cart_items :
                   ci.cart_id = cart_id /\ ci.product_id = product_id}
        lock == {CartItemLock(cart_id, product_id)}
    IN IF hit = {}
       THEN Op("ci_insert", new_id, add_qty,
               [id |-> new_id, cart_id |-> cart_id, product_id |-> product_id,
                quantity |-> add_qty, unit_price_cents |-> price_cents],
               {}, lock)
       ELSE Op("ci_setqty", (CHOOSE ci \in hit : TRUE).id, add_qty, <<>>, {}, lock)

\* INSERT INTO cart_items ... ON CONFLICT (cart_id, product_id) DO UPDATE
\*   SET quantity = cart_items.quantity + EXCLUDED.quantity
\* The id default is drawn from the sequence before the conflict is seen.
Upsert(V, cart_id, product_id, add_qty, price_cents, new_id) ==
    LET hit == {ci \in V.cart_items :
                   ci.cart_id = cart_id /\ ci.product_id = product_id}
        lock == {CartItemLock(cart_id, product_id)}
    IN IF hit = {}
       THEN Op("ci_insert", new_id, add_qty,
               [id |-> new_id, cart_id |-> cart_id, product_id |-> product_id,
                quantity |-> add_qty, unit_price_cents |-> price_cents],
               {}, lock)
       ELSE Op("ci_addqty", (CHOOSE ci \in hit : TRUE).id, add_qty, <<>>, {}, lock)

CartItemsCollection_post_upsert(p) ==
    /\ pc[p] = "add_upsert"
    /\ ~Blocked(p, {CartItemLock(req[p].cart_id, req[p].product_id)})
    /\ Write(p, Upsert(View(p), req[p].cart_id, req[p].product_id, req[p].quantity,
                       loc[p].price_cents, seq.cart_items))
    /\ seq' = [seq EXCEPT !.cart_items = @ + 1]
    /\ Goto(p, "add_touch")
    /\ UNCHANGED <<authvars, dbvars, req, loc, resp, nreq>>

CartItemsCollection_post_touch(p) == Touch(p, "add_touch", "add_read")
CartItemsCollection_post_read(p) == ReadBack(p, "add_read")

\* PUT /carts/<id>/items/<product_id>: set the quantity of a line.
CartItemByProduct_put_cart(p) == CartGate(p, "put_cart", "put_product")
CartItemByProduct_put_product(p) == ProductGate(p, "put_product", "put_update")

\* UPDATE cart_items SET quantity=%s WHERE cart_id=%s AND product_id=%s
CartItemByProduct_put_update(p) ==
    /\ pc[p] = "put_update"
    /\ LET hit == {ci \in ItemsOfCart(View(p), req[p].cart_id) :
                      ci.product_id = req[p].product_id}
           lock == {CartItemLock(req[p].cart_id, req[p].product_id)}
       IN IF hit = {}
          THEN /\ Return(p, 404, "CartItemNotFound", <<>>)
               /\ UNCHANGED tx
          ELSE /\ ~Blocked(p, lock)
               /\ Write(p, Op("ci_setqty", (CHOOSE ci \in hit : TRUE).id,
                              req[p].quantity, <<>>, {}, lock))
               /\ Goto(p, "put_touch")
               /\ UNCHANGED resp
    /\ UNCHANGED <<authvars, dbvars, seq, req, loc, nreq>>

CartItemByProduct_put_touch(p) == Touch(p, "put_touch", "put_read")
CartItemByProduct_put_read(p) == ReadBack(p, "put_read")

\* DELETE /carts/<id>/items/<product_id>: remove a line.
CartItemByProduct_delete_cart(p) == CartGate(p, "remove_cart", "remove_delete")

\* A removal whose DELETE leaves out the product_id condition and takes every
\* line of the cart.
CartItemByProduct_delete_cart_lines(p) ==
    /\ pc[p] = "remove_delete"
    /\ LET hit == ItemsOfCart(View(p), req[p].cart_id)
           lock == {CartItemLock(r.cart_id, r.product_id) : r \in hit}
       IN IF hit = {}
          THEN /\ Return(p, 404, "CartItemNotFound", <<>>)
               /\ UNCHANGED tx
          ELSE /\ ~Blocked(p, lock)
               /\ Write(p, Op("ci_delete", 0, 0, <<>>, {r.id : r \in hit}, lock))
               /\ Goto(p, "remove_touch")
               /\ UNCHANGED resp
    /\ UNCHANGED <<authvars, dbvars, seq, req, loc, nreq>>

\* DELETE FROM cart_items WHERE cart_id=%s AND product_id=%s
CartItemByProduct_delete_item(p) ==
    /\ pc[p] = "remove_delete"
    /\ LET hit == {ci \in ItemsOfCart(View(p), req[p].cart_id) :
                      ci.product_id = req[p].product_id}
           lock == {CartItemLock(req[p].cart_id, req[p].product_id)}
       IN IF hit = {}
          THEN /\ Return(p, 404, "CartItemNotFound", <<>>)
               /\ UNCHANGED tx
          ELSE /\ ~Blocked(p, lock)
               /\ Write(p, Op("ci_delete", 0, 0, <<>>, {r.id : r \in hit}, lock))
               /\ Goto(p, "remove_touch")
               /\ UNCHANGED resp
    /\ UNCHANGED <<authvars, dbvars, seq, req, loc, nreq>>

CartItemByProduct_delete_touch(p) == Touch(p, "remove_touch", "remove_read")
CartItemByProduct_delete_read(p) == ReadBack(p, "remove_read")

\* POST /checkout?cart_id=...: check out a cart and create an order.
Checkout_post_cart(p) == CartGate(p, "checkout_cart", "checkout_items")

\* cart_full = _get_cart_with_items(cur, cart_id); an empty cart answers 400.
Checkout_post_items(p) ==
    /\ pc[p] = "checkout_items"
    /\ LET cart_full == _get_cart_with_items(View(p), req[p].cart_id) IN
          IF ~cart_full.found \/ Len(cart_full.items) = 0
          THEN Return(p, 400, "EmptyCart", <<>>) /\ UNCHANGED loc
          ELSE /\ loc' = [loc EXCEPT ![p].cart_full = cart_full, ![p].i = 1]
               /\ Goto(p, "checkout_validate")
               /\ UNCHANGED resp
    /\ UNCHANGED <<authvars, dbvars, seq, req, tx, nreq>>

\* One turn of "for it in cart_full["items"]": validate inventory again.
Checkout_post_validate(p) ==
    /\ pc[p] = "checkout_validate"
    /\ LET it == loc[p].cart_full.items[loc[p].i]
           product_id == it.product_id
           qty == it.quantity
           product == _get_product_for_sale(View(p), product_id)
           available == product.quantity - product.reserved
       IN IF ~product.found \/ ~product.active
          THEN Return(p, 409, "ProductUnavailable", <<>>) /\ UNCHANGED loc
          ELSE IF available < qty
          THEN /\ Return(p, 409, "InsufficientInventory",
                         [available |-> available, requested |-> qty])
               /\ UNCHANGED loc
          ELSE IF loc[p].i < Len(loc[p].cart_full.items)
          THEN /\ loc' = [loc EXCEPT ![p].i = @ + 1]
               /\ UNCHANGED <<pc, resp>>
          ELSE /\ loc' = [loc EXCEPT ![p].i = 1]
               /\ Goto(p, "checkout_decrement")
               /\ UNCHANGED resp
    /\ UNCHANGED <<authvars, dbvars, seq, req, tx, nreq>>

\* One turn of the second loop:
\* UPDATE inventory SET quantity = quantity - %s WHERE product_id=%s
Checkout_post_decrement(p) ==
    /\ pc[p] = "checkout_decrement"
    /\ LET it == loc[p].cart_full.items[loc[p].i]
           locks == IF View(p).inventory[it.product_id].tracked
                    THEN {InventoryLock(it.product_id)} ELSE {}
       IN /\ ~Blocked(p, locks)
          /\ Write(p, Op("inv_dec", it.product_id, it.quantity, <<>>, {}, locks))
    /\ IF loc[p].i < Len(loc[p].cart_full.items)
       THEN loc' = [loc EXCEPT ![p].i = @ + 1] /\ UNCHANGED pc
       ELSE loc' = [loc EXCEPT ![p].i = 1] /\ Goto(p, "checkout_order")
    /\ UNCHANGED <<authvars, dbvars, seq, req, resp, nreq>>

\* The order row of INSERT INTO orders(...) VALUES (%s, 'placed', ...).
OrderRow(order_id, cart_id, cart_full) ==
    LET subtotal_cents == cart_full.subtotal_cents
        tax_cents == 0
        shipping_cents == 0
    IN [id |-> order_id, cart_id |-> cart_id, user_id |-> NoUser,
        status |-> "placed", subtotal_cents |-> subtotal_cents,
        total_cents |-> subtotal_cents + tax_cents + shipping_cents]

\* The order_items row inserted for cart_full["items"][i].
OrderItemRow(order_id, first_id, items, i) ==
    [id |-> first_id + i - 1, order_id |-> order_id,
     product_id |-> items[i].product_id,
     quantity |-> items[i].quantity,
     unit_price_cents |-> items[i].unit_price_cents,
     line_total_cents |-> items[i].quantity * items[i].unit_price_cents]

\* INSERT INTO orders ... RETURNING, then the loop of INSERT INTO order_items
\* ... RETURNING. The rows are new and read nothing but the local cart_full.
Checkout_post_order(p) ==
    /\ pc[p] = "checkout_order"
    /\ LET items == loc[p].cart_full.items
           order_row == OrderRow(seq.orders, req[p].cart_id, loc[p].cart_full)
           items_out == [i \in DOMAIN items |->
                            OrderItemRow(seq.orders, seq.order_items, items, i)]
       IN /\ tx' = [tx EXCEPT ![p] =
                     @ \o << Op("order_insert", order_row.id, 0, order_row, {}, {}),
                             Op("oi_insert", order_row.id, 0, <<>>,
                                {items_out[i] : i \in DOMAIN items}, {}) >>]
          /\ seq' = [seq EXCEPT !.orders = @ + 1, !.order_items = @ + Len(items)]
          /\ loc' = [loc EXCEPT ![p].order_row = order_row, ![p].items_out = items_out]
    /\ Goto(p, "checkout_status")
    /\ UNCHANGED <<authvars, dbvars, req, resp, nreq>>

\* UPDATE carts SET status='checked_out' WHERE id=%s
Checkout_post_status(p) ==
    /\ pc[p] = "checkout_status"
    /\ ~Blocked(p, {CartLock(req[p].cart_id)})
    /\ Write(p, Op("cart_status", req[p].cart_id, 0, "checked_out", {},
                   {CartLock(req[p].cart_id)}))
    /\ Goto(p, "checkout_delete")
    /\ UNCHANGED <<authvars, dbvars, seq, req, loc, resp, nreq>>

\* DELETE FROM cart_items WHERE cart_id=%s; return {**order_row, "items": items_out}
Checkout_post_delete(p) ==
    /\ pc[p] = "checkout_delete"
    /\ LET rows == ItemsOfCart(View(p), req[p].cart_id)
           locks == {CartItemLock(r.cart_id, r.product_id) : r \in rows}
       IN /\ ~Blocked(p, locks)
          /\ Write(p, Op("ci_delete", 0, 0, <<>>, {r.id : r \in rows}, locks))
    /\ Return(p, 201, "Order", [order |-> loc[p].order_row, items |-> loc[p].items_out])
    /\ UNCHANGED <<authvars, dbvars, seq, req, loc, nreq>>

\* ------------------------------------- orders.py: the SQLAlchemy checkout

\* _active_cart(user_id): the carts that select(Cart).where(user_id, ACTIVE) finds.
_active_cart(user_id) ==
    {c \in CartIds : carts[c].user_id = user_id /\ carts[c].status = "ACTIVE"}

\* subtotal += item.quantity * product.price_cents over cart.items
RECURSIVE OrdersSubtotal(_)
OrdersSubtotal(items) ==
    IF items = <<>> THEN 0
    ELSE Head(items).quantity * products[Head(items).product_id].price_cents
         + OrdersSubtotal(Tail(items))

\* OrderItem(order_id, product_id, quantity=item.quantity,
\*           unit_price_cents=product.price_cents) for cart.items[i];
\* line_total_cents is what _serialize_order reports for it.
OrdersItemRow(order_id, first_id, items, i) ==
    [id |-> first_id + i - 1, order_id |-> order_id,
     product_id |-> items[i].product_id,
     quantity |-> items[i].quantity,
     unit_price_cents |-> products[items[i].product_id].price_cents,
     line_total_cents |-> items[i].quantity * products[items[i].product_id].price_cents]

\* The sequences in which a SELECT without ORDER BY may return a set of rows.
Orderings(rows) ==
    {s \in [1..Cardinality(rows) -> rows] :
        \A i, j \in 1..Cardinality(rows) : s[i] = s[j] => i = j}

\* The body of POST /orders/checkout, run for g.current_user = u: one session,
\* committed at the end; abort() and exceptions leave the session uncommitted.
\* cart.items is a relationship without order_by: its rows come in the order
\* the database returns them.
OrdersCheckout(p, u) ==
    LET found == _active_cart(u)
        cart == CHOOSE c \in found : TRUE
        rows == IF found = {} THEN {} ELSE {ci \in cart_items : ci.cart_id = cart}
        answer(status, kind, body) ==
            resp' = [resp EXCEPT ![p] =
                       [status |-> status, kind |-> kind, body |-> body]]
    IN \E items \in Orderings(rows) :
          LET gone == {i \in DOMAIN items :
                          ~products[items[i].product_id].found
                          \/ ~products[items[i].product_id].active}
              subtotal == OrdersSubtotal(items)
              order_row == [id |-> seq.orders, cart_id |-> 0, user_id |-> u,
                            status |-> "PLACED", subtotal_cents |-> subtotal,
                            total_cents |-> subtotal]
              items_out == [i \in DOMAIN items |->
                               OrdersItemRow(seq.orders, seq.order_items, items, i)]
          IN IF Cardinality(found) > 1
             THEN /\ answer(500, "Internal", <<>>)
                  /\ UNCHANGED <<dbvars, seq>>
             ELSE IF found = {}
             THEN /\ answer(400, "NoActiveCart", <<>>)
                  /\ UNCHANGED <<dbvars, seq>>
             ELSE IF rows = {}
             THEN /\ answer(400, "EmptyCart", <<>>)
                  /\ UNCHANGED <<dbvars, seq>>
             ELSE IF gone # {}
             THEN \* abort(400, f"Product {item.product_id} no longer available")
                  /\ answer(400, "ProductUnavailable",
                            items[CHOOSE i \in gone : \A j \in gone : i <= j].product_id)
                  /\ UNCHANGED <<dbvars, seq>>
             ELSE /\ orders' = orders \cup {order_row}
                  /\ order_items' = order_items \cup {items_out[i] : i \in DOMAIN items}
                  /\ carts' = [carts EXCEPT ![cart].status = "CHECKED_OUT"]
                  /\ cart_items' = {ci \in cart_items : ci.cart_id # cart}
                  /\ seq' = [seq EXCEPT !.orders = @ + 1,
                                        !.order_items = @ + Len(items)]
                  /\ answer(201, "Order", [order |-> order_row, items |-> items_out])
                  /\ UNCHANGED <<products, inventory>>

\* POST /orders/checkout by a user whose token require_auth has accepted.
OrdersCheckout_post(p) ==
    /\ pc[p] = "idle"
    /\ nreq < MaxRequests
    /\ \E u \in Users :
          /\ req' = [req EXCEPT ![p] = [NoReq EXCEPT !.op = "orders_checkout",
                                                     !.user_id = u]]
          /\ OrdersCheckout(p, u)
    /\ pc' = [pc EXCEPT ![p] = "done"]
    /\ nreq' = nreq + 1
    /\ UNCHANGED <<authvars, loc, tx>>

\* ---------------------------------------- auth.py, deps.py: identities

\* JWT_ACCESS_TOKEN_EXPIRES, in hours
JWT_ACCESS_TOKEN_EXPIRES == 1
MaxClock == 2
MaxCalls == 2

\* pwd_context.hash / pwd_context.verify
hash_password(password) == <<"bcrypt", password>>
verify_password(password, password_hash) == password_hash = hash_password(password)

\* create_access_token(user_id): the signed payload and the signing time.
create_access_token(user_id) ==
    [scheme |-> "Bearer", sub |-> user_id, iat |-> now, signed |-> TRUE]

\* A verification that checks the signature and never the age of the token.
verify_access_token_unexpiring(token, max_age_seconds) ==
    IF ~token.signed THEN NoUser
    ELSE token.sub

\* verify_access_token(token, max_age_seconds): BadSignature and
\* SignatureExpired give None (NoUser), otherwise the payload's "sub".
verify_access_token(token, max_age_seconds) ==
    IF ~token.signed THEN NoUser
    ELSE IF now - token.iat > max_age_seconds THEN NoUser
    ELSE token.sub

\* The Authorization headers a request may carry: none, another scheme, a
\* Bearer token with a bad signature, a Bearer token signed at some earlier time.
Headers ==
    {NoHeader}
    \cup {[scheme |-> "Basic", sub |-> 0, iat |-> 0, signed |-> FALSE]}
    \cup {[scheme |-> "Bearer", sub |-> u, iat |-> 0, signed |-> FALSE] : u \in Users}
    \cup {[scheme |-> "Bearer", sub |-> u, iat |-> t, signed |-> TRUE] :
             u \in Users, t \in 0..now}

Answer(p, status, kind, body) ==
    resp' = [resp EXCEPT ![p] = [status |-> status, kind |-> kind, body |-> body]]

\* UserPublicSchema of a users row
UserPublic(u) == [id |-> u.id, email |-> u.email]

\* GET /auth/me: return g.current_user
Me(p, u) ==
    /\ Answer(p, 200, "User", UserPublic(CHOOSE row \in users : row.id = u))
    /\ UNCHANGED <<dbvars, seq>>

\* ProductSchema of the product row an order item points at (item.product)
ProductOut(x) ==
    [id |-> x, sku |-> products[x].sku, name |-> products[x].name,
     price_cents |-> products[x].price_cents, is_active |-> products[x].active]

\* _serialize_order(order): the order's columns and, per item, the related
\* product as it is now, the stored quantity and unit price, and their product.
SerializeItems(items) ==
    [i \in DOMAIN items |->
        [id |-> items[i].id,
         product |-> ProductOut(items[i].product_id),
         quantity |-> items[i].quantity,
         unit_price_cents |-> items[i].unit_price_cents,
         line_total_cents |-> items[i].quantity * items[i].unit_price_cents]]

_serialize_order(order) ==
    [id |-> order.id, status |-> order.status,
     subtotal_cents |-> order.subtotal_cents, total_cents |-> order.total_cents,
     items |-> SerializeItems(OrderById({oi \in order_items : oi.order_id = order.id}))]

\* ORDER BY created_at DESC: the newest order first
RECURSIVE OrderByCreatedDesc(_)
OrderByCreatedDesc(rows) ==
    IF rows = {} THEN <<>>
    ELSE LET r == CHOOSE r \in rows : \A q \in rows : q.id <= r.id
         IN <<r>> \o OrderByCreatedDesc(rows \ {r})

\* q.offset((page - 1) * page_size).limit(page_size)
OffsetLimit(rows, page, page_size) ==
    LET first == (page - 1) * page_size + 1
        last == IF page * page_size < Len(rows) THEN page * page_size ELSE Len(rows)
    IN SubSeq(rows, first, last)

\* GET /orders: the current user's orders, newest first, one page
OrderList(p, u) ==
    LET mine == {o \in orders : o.user_id = u}
        page == OffsetLimit(OrderByCreatedDesc(mine), req'[p].page, req'[p].page_size)
    IN /\ Answer(p, 200, "OrderList",
                 [items |-> [i \in DOMAIN page |-> _serialize_order(page[i])],
                  total |-> Cardinality(mine)])
       /\ UNCHANGED <<dbvars, seq>>

\* An order lookup by id alone, without the comparison of its owner.
OrderDetailAnyOwner(p, u) ==
    LET hit == {o \in orders : o.id = req'[p].order_id} IN
       /\ IF hit = {}
          THEN Answer(p, 404, "NotFound", "Order not found")
          ELSE Answer(p, 200, "Order", _serialize_order(CHOOSE o \in hit : TRUE))
       /\ UNCHANGED <<dbvars, seq>>

\* GET /orders/<order_id>: 404 unless the order exists and is the user's
OrderDetail(p, u) ==
    LET hit == {o \in orders : o.id = req'[p].order_id} IN
       /\ IF hit = {} \/ (\E o \in hit : o.user_id # u)
          THEN Answer(p, 404, "NotFound", "Order not found")
          ELSE Answer(p, 200, "Order", _serialize_order(CHOOSE o \in hit : TRUE))
       /\ UNCHANGED <<dbvars, seq>>

\* The handler a protected route wraps.
fn(p, user_id, op) ==
    CASE op = "me" -> Me(p, user_id)
      [] op = "orders_checkout" -> OrdersCheckout(p, user_id)
      [] op = "order_list" -> OrderList(p, user_id)
      [] op = "order_detail" -> OrderDetail(p, user_id)

\* require_auth(fn): request r reaches fn only with g.current_user set from a
\* valid token of an existing user; otherwise 401 and fn is not called.
require_auth(p, r) ==
    /\ pc[p] = "idle"
    /\ nreq < MaxCalls
    /\ LET user_id == verify_access_token(r.header, JWT_ACCESS_TOKEN_EXPIRES)
           reject(message) ==
               /\ req' = [req EXCEPT ![p] = r]
               /\ Answer(p, 401, "Unauthorized", message)
               /\ UNCHANGED <<dbvars, seq>>
       IN IF r.header.scheme # "Bearer" THEN reject("Missing Bearer token")
          ELSE IF user_id = NoUser THEN reject("Invalid or expired token")
          ELSE IF \A u \in users : u.id # user_id THEN reject("User not found")
          ELSE /\ req' = [req EXCEPT ![p] = [r EXCEPT !.user_id = user_id]]
               /\ fn(p, user_id, r.op)
    /\ pc' = [pc EXCEPT ![p] = "done"]
    /\ nreq' = nreq + 1
    /\ UNCHANGED <<authvars, loc, tx>>

\* GET /auth/me behind require_auth
Me_get(p) ==
    \E h \in Headers : require_auth(p, [NoReq EXCEPT !.op = "me", !.header = h])

\* POST /orders/checkout behind require_auth
Orders_Checkout_post(p) ==
    \E h \in Headers :
        require_auth(p, [NoReq EXCEPT !.op = "orders_checkout", !.header = h])

\* GET /orders behind require_auth
OrderList_get(p) ==
    \E h \in Headers, page \in 1..2, page_size \in {1, 10} :
        \* the default page (1, 10), or one order per page
        /\ page_size = 10 => page = 1
        /\ require_auth(p, [NoReq EXCEPT !.op = "order_list", !.header = h,
                                         !.page = page, !.page_size = page_size])

\* GET /orders/<order_id> behind require_auth
OrderDetail_get(p) ==
    \E h \in Headers, order_id \in 1..MaxCarts :
        require_auth(p, [NoReq EXCEPT !.op = "order_detail", !.header = h,
                                      !.order_id = order_id])

\* ------------------------------------------- routes/auth.py: accounts

Emails == {"ann@x.io", "Ann@x.io", "bob@x.io"}
Passwords == {"pw1", "pw2"}

\* str.lower()
lower(email) == IF email = "Ann@x.io" THEN "ann@x.io" ELSE email

\* POST /auth/register, first statement: select(User).where(User.email ==
\* payload["email"]), the email compared as it was sent.
Register_post(p) ==
    /\ pc[p] = "idle"
    /\ nreq < MaxCalls
    /\ \E email \in Emails, password \in Passwords :
          /\ req' = [req EXCEPT ![p] = [NoReq EXCEPT !.op = "register", !.email = email,
                                                     !.password = password]]
          /\ IF \E u \in users : u.email = email
             THEN /\ Answer(p, 409, "EmailTaken", "Email already registered")
                  /\ pc' = [pc EXCEPT ![p] = "done"]
             ELSE /\ pc' = [pc EXCEPT ![p] = "register_commit"]
                  /\ UNCHANGED resp
    /\ nreq' = nreq + 1
    /\ UNCHANGED <<dbvars, seq, loc, tx, users, now>>

\* POST /auth/register, db.session.commit(): INSERT the user with the email in
\* lower case; the unique index on users.email refuses a second row
\* (IntegrityError, answered 500).
Register_post_commit(p) ==
    /\ pc[p] = "register_commit"
    /\ LET email == lower(req[p].email)
           id == 1 + Cardinality(users)
           user == [id |-> id, email |-> email,
                    password_hash |-> hash_password(req[p].password)]
       IN IF \E u \in users : u.email = email
          THEN /\ Answer(p, 500, "Internal", "IntegrityError")
               /\ UNCHANGED users
          ELSE /\ users' = users \cup {user}
               /\ Answer(p, 201, "User", UserPublic(user))
    /\ pc' = [pc EXCEPT ![p] = "done"]
    /\ UNCHANGED <<dbvars, seq, req, loc, tx, nreq, now>>

\* A login that looks the email up as it was sent, without lower().
Login_post_exact(p) ==
    /\ pc[p] = "idle"
    /\ nreq < MaxCalls
    /\ \E email \in Emails, password \in Passwords :
          LET hit == {u \in users : u.email = email} IN
             /\ req' = [req EXCEPT ![p] = [NoReq EXCEPT !.op = "login", !.email = email,
                                                        !.password = password]]
             /\ IF hit = {} \/ \E u \in hit : ~verify_password(password, u.password_hash)
                THEN Answer(p, 401, "InvalidCredentials", "Invalid credentials")
                ELSE Answer(p, 200, "Token",
                            [access_token |-> create_access_token((CHOOSE u \in hit : TRUE).id),
                             token_type |-> "Bearer",
                             expires_in_seconds |-> JWT_ACCESS_TOKEN_EXPIRES])
    /\ pc' = [pc EXCEPT ![p] = "done"]
    /\ nreq' = nreq + 1
    /\ UNCHANGED <<dbvars, seq, loc, tx, users, now>>

\* POST /auth/login
Login_post(p) ==
    /\ pc[p] = "idle"
    /\ nreq < MaxCalls
    /\ \E email \in Emails, password \in Passwords :
          LET hit == {u \in users : u.email = lower(email)} IN
             /\ req' = [req EXCEPT ![p] = [NoReq EXCEPT !.op = "login", !.email = email,
                                                        !.password = password]]
             /\ IF hit = {} \/ \E u \in hit : ~verify_password(password, u.password_hash)
                THEN Answer(p, 401, "InvalidCredentials", "Invalid credentials")
                ELSE Answer(p, 200, "Token",
                            [access_token |-> create_access_token((CHOOSE u \in hit : TRUE).id),
                             token_type |-> "Bearer",
                             expires_in_seconds |-> JWT_ACCESS_TOKEN_EXPIRES])
    /\ pc' = [pc EXCEPT ![p] = "done"]
    /\ nreq' = nreq + 1
    /\ UNCHANGED <<dbvars, seq, loc, tx, users, now>>

\* Time passes between requests.
Tick ==
    /\ now < MaxClock
    /\ now' = now + 1
    /\ UNCHANGED <<dbvars, seq, pc, req, loc, tx, resp, nreq, users>>

\* --------------------------------------- routes/products.py: the catalog

Skus == {"SKU-1", "SKU-2"}
NoProductRow == [found |-> FALSE, active |-> FALSE, price_cents |-> 0, sku |-> "", name |-> ""]

\* POST /products, first statement: select(Product).where(Product.sku == sku)
ProductCreate_post(p) ==
    /\ pc[p] = "idle"
    /\ nreq < MaxCalls
    /\ \E sku \in Skus :
          \* the catalog of the model has room for every SKU about to be inserted
          /\ Cardinality({k \in {sku} \cup {req[q].sku : q \in {q \in Procs :
                                                       pc[q] = "product_commit"}} :
                             \A x \in Products : ~(products[x].found /\ products[x].sku = k)})
                <= Cardinality({x \in Products : ~products[x].found})
          /\ req' = [req EXCEPT ![p] = [NoReq EXCEPT !.op = "product_create", !.sku = sku]]
          /\ IF \E x \in Products : products[x].found /\ products[x].sku = sku
             THEN /\ Answer(p, 409, "DuplicateSku", "SKU already exists")
                  /\ pc' = [pc EXCEPT ![p] = "done"]
             ELSE /\ pc' = [pc EXCEPT ![p] = "product_commit"]
                  /\ UNCHANGED resp
    /\ nreq' = nreq + 1
    /\ UNCHANGED <<dbvars, seq, loc, tx, users, now>>

\* POST /products, db.session.commit(): INSERT the product; the unique index
\* on products.sku refuses a second row with the SKU (IntegrityError, 500).
ProductCreate_post_commit(p) ==
    /\ pc[p] = "product_commit"
    /\ LET id == CHOOSE x \in Products :
                    ~products[x].found /\ \A y \in Products : ~products[y].found => x <= y
           row == [found |-> TRUE, active |-> TRUE, price_cents |-> 700,
                   sku |-> req[p].sku, name |-> "New"]
       IN IF \E x \in Products : products[x].found /\ products[x].sku = req[p].sku
          THEN /\ Answer(p, 500, "Internal", "IntegrityError")
               /\ UNCHANGED products
          ELSE /\ products' = [products EXCEPT ![id] = row]
               /\ Answer(p, 201, "Product",
                         [id |-> id, sku |-> row.sku, name |-> row.name,
                          price_cents |-> row.price_cents, is_active |-> row.active])
    /\ pc' = [pc EXCEPT ![p] = "done"]
    /\ UNCHANGED <<inventory, carts, cart_items, orders, order_items,
                   seq, req, loc, tx, nreq, users, now>>

\* ------------------------------------------------------ the specification

\* The catalog's prices, in cents.
PriceOf(x) == IF x = 1 THEN 500 ELSE 300
SkuOf(x) == IF x = 1 THEN "SKU-1" ELSE "SKU-2"
NameOf(x) == IF x = 1 THEN "Tee" ELSE "Mug"

\* The accounts that own the carts: one row per user id, the email stored in
\* lower case, the password kept as its bcrypt hash.
UserRow(id) ==
    [id |-> id,
     email |-> IF id = 1 THEN "ann@x.io" ELSE "bob@x.io",
     password_hash |-> hash_password(IF id = 1 THEN "pw1" ELSE "pw2")]

\* The inventory the store holds at the start. Product 1 is tracked and in
\* stock with nothing reserved; any other product is untracked (no inventory
\* row) or fully stocked with some of it reserved.
InitInventory ==
    {inv \in [Products -> {NoRow} \cup
                          {[tracked |-> TRUE, quantity |-> q, reserved |-> r] :
                              q \in 1..MaxStock, r \in 0..MaxReserved}] :
        /\ inv[1].tracked /\ inv[1].reserved = 0
        /\ \A x \in Products \ {1} : inv[x].tracked => inv[x].quantity = MaxStock}

\* A cart line the store holds at the start, numbered in cart and product order.
InitLine(c, x, n) ==
    [id |-> (c - 1) * NProducts + x, cart_id |-> c, product_id |-> x,
     quantity |-> n, unit_price_cents |-> PriceOf(x)]

\* The carts and lines at the start: cart 1 is open and holds one unit of
\* product 1 and perhaps one of another product; the carts after it are open
\* with one unit of product 1, or not created yet.
InitLines ==
    {l \in [CartIds \X Products -> 0..1] :
        /\ l[<<1, 1>>] = 1
        /\ \A c \in CartIds \ {1}, x \in Products \ {1} : l[<<c, x>>] = 0
        /\ \A c \in CartIds \ {1, 2} : l[<<c, 1>>] <= l[<<2, 1>>]}

Init ==
    /\ \E active \in [Products -> BOOLEAN] :
          /\ active[1]
          /\ products = [x \in Products |->
                           [found |-> TRUE, active |-> active[x],
                            price_cents |-> PriceOf(x),
                            sku |-> SkuOf(x), name |-> NameOf(x)]]
    /\ inventory \in InitInventory
    /\ \E l \in InitLines :
          /\ carts = [c \in CartIds |->
                        IF l[<<c, 1>>] = 1 THEN [status |-> "open", user_id |-> NoUser]
                        ELSE NoCart]
          /\ cart_items = {InitLine(d[1], d[2], 1) :
                              d \in {e \in CartIds \X Products : l[e] = 1}}
          /\ seq = [carts |-> 1 + Cardinality({c \in CartIds : l[<<c, 1>>] = 1}),
                    cart_items |-> MaxCarts * NProducts + 1,
                    orders |-> 1, order_items |-> 1]
    /\ orders = {}
    /\ order_items = {}
    /\ pc = [p \in Procs |-> "idle"]
    /\ req = [p \in Procs |-> NoReq]
    /\ loc = [p \in Procs |-> NoLoc]
    /\ tx = [p \in Procs |-> <<>>]
    /\ resp = [p \in Procs |-> NoResp]
    /\ nreq = 0
    /\ users = {UserRow(u) : u \in Users}
    /\ now = 0

Next ==
    \E p \in Procs :
        \/ Begin(p)
        \/ Commit(p)
        \/ Fault(p)
        \/ Finish(p)
        \/ CartsCollection_post(p)
        \/ CartById_get(p)
        \/ CartById_delete_cart(p)
        \/ CartById_delete_items(p)
        \/ CartById_delete_touch(p)
        \/ CartItemsCollection_post_cart(p)
        \/ CartItemsCollection_post_product(p)
        \/ CartItemsCollection_post_upsert(p)
        \/ CartItemsCollection_post_touch(p)
        \/ CartItemsCollection_post_read(p)
        \/ CartItemByProduct_put_cart(p)
        \/ CartItemByProduct_put_product(p)
        \/ CartItemByProduct_put_update(p)
        \/ CartItemByProduct_put_touch(p)
        \/ CartItemByProduct_put_read(p)
        \/ CartItemByProduct_delete_cart(p)
        \/ CartItemByProduct_delete_item(p)
        \/ CartItemByProduct_delete_touch(p)
        \/ CartItemByProduct_delete_read(p)
        \/ Checkout_post_cart(p)
        \/ Checkout_post_items(p)
        \/ Checkout_post_validate(p)
        \/ Checkout_post_decrement(p)
        \/ Checkout_post_order(p)
        \/ Checkout_post_status(p)
        \/ Checkout_post_delete(p)

Spec == Init /\ [][Next]_vars

\* The store as the SQLAlchemy handlers find it: carts owned by users, ACTIVE
\* or CHECKED_OUT, an ACTIVE cart holding any lines; any stock per product.
InitOrm ==
    /\ \E active \in [Products -> BOOLEAN] :
          products = [x \in Products |->
                        [found |-> TRUE, active |-> active[x], price_cents |-> PriceOf(x),
                         sku |-> SkuOf(x), name |-> NameOf(x)]]
    /\ inventory \in [Products -> {NoRow} \cup
                                  {[tracked |-> TRUE, quantity |-> q, reserved |-> 0] :
                                      q \in 0..MaxStock}]
    /\ carts \in [CartIds -> {NoCart} \cup
                             {[status |-> st, user_id |-> u] :
                                 st \in {"ACTIVE", "CHECKED_OUT"}, u \in Users}]
    /\ \E l \in [CartIds \X Products -> 0..MaxQty] :
          /\ \A d \in CartIds \X Products : carts[d[1]].status # "ACTIVE" => l[d] = 0
          /\ cart_items = {InitLine(d[1], d[2], l[d]) :
                              d \in {e \in CartIds \X Products : l[e] > 0}}
    /\ orders = {}
    /\ order_items = {}
    /\ seq = [carts |-> MaxCarts + 1, cart_items |-> MaxCarts * NProducts + 1,
              orders |-> 1, order_items |-> 1]
    /\ pc = [p \in Procs |-> "idle"]
    /\ req = [p \in Procs |-> NoReq]
    /\ loc = [p \in Procs |-> NoLoc]
    /\ tx = [p \in Procs |-> <<>>]
    /\ resp = [p \in Procs |-> NoResp]
    /\ nreq = 0
    /\ users = {UserRow(u) : u \in Users}
    /\ now = 0

NextOrm ==
    \E p \in Procs :
        \/ OrdersCheckout_post(p)
        \/ Finish(p)

SpecOrm == InitOrm /\ [][NextOrm]_vars

\* The store as the account, catalog and order routes find it: the seeded user
\* and perhaps a second one, each perhaps with an ACTIVE cart of one line; the
\* seeded product and perhaps a second one.
InitAuth ==
    /\ \E second \in BOOLEAN :
          products = [x \in Products |->
                        IF x = 1 \/ second
                        THEN [found |-> TRUE, active |-> TRUE, price_cents |-> PriceOf(x),
                              sku |-> SkuOf(x), name |-> NameOf(x)]
                        ELSE NoProductRow]
    /\ inventory = [x \in Products |-> NoRow]
    /\ \E known \in SUBSET Users, owners \in SUBSET Users :
          /\ 1 \in known
          /\ owners \subseteq known
          /\ users = {UserRow(u) : u \in known}
          /\ carts = [c \in CartIds |->
                        IF c \in owners THEN [status |-> "ACTIVE", user_id |-> c]
                        ELSE NoCart]
          /\ cart_items = {InitLine(c, 1, 1) : c \in owners}
    /\ orders = {}
    /\ order_items = {}
    /\ seq = [carts |-> MaxCarts + 1, cart_items |-> MaxCarts * NProducts + 1,
              orders |-> 1, order_items |-> 1]
    /\ pc = [p \in Procs |-> "idle"]
    /\ req = [p \in Procs |-> NoReq]
    /\ loc = [p \in Procs |-> NoLoc]
    /\ tx = [p \in Procs |-> <<>>]
    /\ resp = [p \in Procs |-> NoResp]
    /\ nreq = 0
    /\ now = 0

NextAuth ==
    \/ Tick
    \/ \E p \in Procs :
          \/ Register_post(p)
          \/ Register_post_commit(p)
          \/ Login_post(p)
          \/ Me_get(p)
          \/ Orders_Checkout_post(p)
          \/ OrderList_get(p)
          \/ OrderDetail_get(p)
          \/ ProductCreate_post(p)
          \/ ProductCreate_post_commit(p)
          \/ Finish(p)

SpecAuth == InitAuth /\ [][NextAuth]_vars

\* A products row is updated by its owner outside these routes (the catalog
\* has no update route; rows carry updated_at with onupdate): the name, the
\* price or the active flag of an existing product changes.
ProductEdited ==
    /\ \E x \in Products :
          /\ products[x].found
          /\ \/ /\ products[x].name # "Renamed"
                /\ products' = [products EXCEPT ![x].name = "Renamed"]
             \/ /\ products[x].price_cents # 900
                /\ products' = [products EXCEPT ![x].price_cents = 900]
             \/ products' = [products EXCEPT ![x].active = ~@]
    /\ UNCHANGED <<inventory, carts, cart_items, orders, order_items, seq,
                   pc, req, loc, tx, resp, nreq, users, now>>

\* Checkouts and order reads of authenticated users while the catalog is edited.
NextSnapshot ==
    \/ ProductEdited
    \/ \E p \in Procs :
          \/ Orders_Checkout_post(p)
          \/ OrderDetail_get(p)
          \/ Finish(p)

SpecSnapshot == InitAuth /\ [][NextSnapshot]_vars

\* ---------------------------------------------------- words of the claims

\* The stored quantity of cart c's line for product x in the rows items
\* (0: no such line).
RECURSIVE SumQuantity(_)
SumQuantity(rows) ==
    IF rows = {} THEN 0
    ELSE LET r == CHOOSE r \in rows : TRUE IN r.quantity + SumQuantity(rows \ {r})

LinesOf(items, c, x) == {ci \in items : ci.cart_id = c /\ ci.product_id = x}
StoredQuantity(items, c, x) == SumQuantity(LinesOf(items, c, x))

RECURSIVE SumLineValue(_)
SumLineValue(rows) ==
    IF rows = {} THEN 0
    ELSE LET r == CHOOSE r \in rows : TRUE
         IN r.quantity * r.unit_price_cents + SumLineValue(rows \ {r})

RECURSIVE SumLineTotal(_)
SumLineTotal(rows) ==
    IF rows = {} THEN 0
    ELSE LET r == CHOOSE r \in rows : TRUE
         IN r.line_total_cents + SumLineTotal(rows \ {r})

Available(x) == inventory[x].quantity - inventory[x].reserved

\* Worker p's request of kind op commits in this step with the given status.
Commits(p, op, status) ==
    /\ pc[p] = "commit" /\ pc'[p] = "done"
    /\ req[p].op = op
    /\ resp[p].status = status

\* Worker p takes this step.
Steps(p) == <<pc[p], loc[p], tx[p], resp[p], req[p]>>' # <<pc[p], loc[p], tx[p], resp[p], req[p]>>

\* ------------------------------------------------------------------ claims

\* C1: no oversell: concurrent checkouts of different carts (no cart is checked
\* out twice) never take a tracked product's available count (quantity -
\* reserved) below 0, whatever their interleaving.
C1_NoOversell ==
    (\A c \in CartIds : Cardinality({o \in orders : o.cart_id = c}) <= 1)
    => \A x \in Products : inventory[x].tracked => Available(x) >= 0

\* C2: checkout is all-or-nothing: a checkout that ends in any failure (a
\* validation failure, or a write of its mutation phase raising) has changed no
\* inventory row, order, order item, cart or cart item; only the commit of a
\* successful checkout changes the store on behalf of a checkout request.
C2_CheckoutAllOrNothing ==
    [][\A p \in Procs :
          (req[p].op = "checkout" /\ Steps(p)
           /\ ~(pc'[p] = "done" /\ resp'[p].status = 201))
          => UNCHANGED dbvars]_vars

\* C2 witness: a checkout has failed validation on its second line, or has
\* been rolled back by a fault after it wrote its first inventory decrement.
C2_Witness ==
    \E p \in Procs :
        /\ pc[p] = "done" /\ req[p].op = "checkout"
        /\ \/ resp[p].kind \in {"InsufficientInventory", "ProductUnavailable"}
              /\ loc[p].i = 2
           \/ resp[p].kind = "Internal" /\ loc[p].order_row # <<>>

\* C3: a successful checkout decrements the inventory quantity of each product
\* by exactly the quantity stored on the cart's line for it (0 for a product
\* that is not in the cart).
C3_DecrementsByLineQuantity ==
    [][\A p \in Procs :
          Commits(p, "checkout", 201) =>
             \A x \in Products :
                inventory[x].tracked =>
                   inventory'[x].quantity =
                      inventory[x].quantity - StoredQuantity(cart_items, req[p].cart_id, x)]_vars

\* C4: the order a successful checkout creates has subtotal_cents = the sum
\* over the cart's lines of stored quantity x unit price, total_cents =
\* subtotal_cents, and the subtotal is the sum of its order items' line totals.
C4_OrderTotals ==
    [][\A p \in Procs :
          Commits(p, "checkout", 201) =>
             \A o \in orders' \ orders :
                /\ o.subtotal_cents =
                      SumLineValue({ci \in cart_items : ci.cart_id = req[p].cart_id})
                /\ o.total_cents = o.subtotal_cents
                /\ o.subtotal_cents =
                      SumLineTotal({oi \in order_items' : oi.order_id = o.id})]_vars

\* C5: after a successful checkout the cart is checked out and has no items,
\* exactly one new order exists, with status placed, its items correspond one
\* to one to the cart's former lines (same product, same quantity), and the
\* order returned to the caller carries exactly those items.
C5_CheckoutPostcondition ==
    [][\A p \in Procs :
          Commits(p, "checkout", 201) =>
             LET c == req[p].cart_id
                 lines == {ci \in cart_items : ci.cart_id = c}
                 new == orders' \ orders
             IN /\ carts'[c].status = "checked_out"
                /\ {ci \in cart_items' : ci.cart_id = c} = {}
                /\ Cardinality(new) = 1
                /\ \A o \in new :
                      /\ o.status = "placed"
                      /\ LET ois == {oi \in order_items' : oi.order_id = o.id} IN
                            /\ Cardinality(ois) = Cardinality(lines)
                            /\ \A ci \in lines : \E oi \in ois :
                                  oi.product_id = ci.product_id /\ oi.quantity = ci.quantity
                            /\ {resp[p].body.items[i] : i \in DOMAIN resp[p].body.items} = ois]_vars

\* C6: the authenticated-owner checkout re-checks inventory: an order it
\* creates holds no line whose quantity exceeds the tracked product's
\* available inventory at checkout time, and it decrements the inventory of
\* every tracked product it sells by the line quantity.
C6_OwnerCheckoutChecksInventory ==
    [][\A p \in Procs :
          (pc[p] = "idle" /\ pc'[p] = "done"
           /\ req'[p].op = "orders_checkout" /\ resp'[p].status = 201)
          => \A oi \in order_items' \ order_items :
                inventory[oi.product_id].tracked =>
                   /\ oi.quantity <= Available(oi.product_id)
                   /\ inventory'[oi.product_id].quantity =
                         inventory[oi.product_id].quantity - oi.quantity]_vars

\* C7: a cart produces at most one order, in every interleaving.
C7_AtMostOneOrderPerCart ==
    \A c \in CartIds : Cardinality({o \in orders : o.cart_id = c}) <= 1

\* C8: cart mutation and checkout on one cart exclude each other: an add_item
\* that reports success lands in a cart that is open, and a successful checkout
\* orders every line it deletes from the cart.
C8_MutationExcludesCheckout ==
    [][\A p \in Procs :
          /\ Commits(p, "add", 200) => carts[req[p].cart_id].status = "open"
          /\ Commits(p, "checkout", 201) =>
                \A ci \in cart_items :
                   ci.cart_id = req[p].cart_id =>
                      \E oi \in order_items' \ order_items :
                         oi.product_id = ci.product_id]_vars

\* C9: CHECKED_OUT is terminal: a checked-out cart stays checked out and has
\* no cart items, in every later state.
C9_CheckedOutTerminal ==
    [][\A c \in CartIds :
          carts[c].status = "checked_out" =>
             /\ carts'[c].status = "checked_out"
             /\ {ci \in cart_items' : ci.cart_id = c} = {}]_vars

\* C10: idempotent add: a successful add_item of quantity b for a product
\* leaves exactly one line for it, holding the quantity stored before (0 when
\* there was no line) plus b; no cart ever holds two lines for one product.
C10_IdempotentAdd ==
    [][/\ \A p \in Procs :
             Commits(p, "add", 200) =>
                StoredQuantity(cart_items', req[p].cart_id, req[p].product_id)
                   = StoredQuantity(cart_items, req[p].cart_id, req[p].product_id)
                     + req[p].quantity
       /\ \A c \in CartIds, x \in Products :
             Cardinality(LinesOf(cart_items', c, x)) <= 1]_vars

\* C10 witness: a line the program inserted holds more than one request can
\* add: a second add_item went onto the line the first one made.
C10_Witness ==
    \E ci \in cart_items :
        /\ ci.id > MaxCarts * NProducts
        /\ ci.quantity > MaxQty

\* C11: add_item on an open cart answers NotFound when the product is missing
\* or inactive, and InsufficientInventory carrying {available, requested} when
\* the tracked product's available count (quantity - reserved) is below the
\* requested quantity; no step of an add_item that fails in either way changes
\* a cart, a cart line, the inventory or the orders.
C11_AddItemFailures ==
    [][\A p \in Procs :
          /\ (pc[p] = "add_product" /\ Steps(p)) =>
                LET x == req[p].product_id IN
                   IF x \notin Products \/ ~products[x].found \/ ~products[x].active
                   THEN resp'[p].status = 404 /\ resp'[p].kind = "ProductNotFound"
                   ELSE (inventory[x].tracked /\ Available(x) < req[p].quantity) =>
                           /\ resp'[p].status = 409
                           /\ resp'[p].kind = "InsufficientInventory"
                           /\ resp'[p].body = [available |-> Available(x),
                                               requested |-> req[p].quantity]
          /\ (req[p].op = "add" /\ Steps(p)
              /\ resp'[p].kind \in {"ProductNotFound", "InsufficientInventory"})
             => UNCHANGED dbvars]_vars

\* C11 witness: an add_item has been refused for a product that has stock,
\* but less than was asked for.
C11_Witness ==
    \E p \in Procs :
        /\ pc[p] = "done" /\ req[p].op = "add"
        /\ resp[p].kind = "InsufficientInventory"
        /\ resp[p].body.available > 0
        /\ resp[p].body.available < resp[p].body.requested

\* C12: set_item_quantity on an open cart answers NotFound whenever the cart
\* has no line for the product, whatever quantity is asked and whatever the
\* product's availability, and changes nothing; when the line exists the
\* inventory check compares the requested absolute quantity with the available
\* count, and a successful request leaves exactly the requested quantity on
\* the line.
C12_SetItemQuantity ==
    [][\A p \in Procs :
          LET c == req[p].cart_id
              x == req[p].product_id
          IN /\ (req[p].op = "put" /\ Steps(p) /\ pc'[p] = "commit"
                 /\ pc[p] \in {"put_product", "put_update"}
                 /\ LinesOf(cart_items, c, x) = {})
                => resp'[p].status = 404
             /\ (pc[p] = "put_product" /\ Steps(p) /\ LinesOf(cart_items, c, x) # {}
                 /\ x \in Products /\ products[x].active /\ inventory[x].tracked)
                => (resp'[p].kind = "InsufficientInventory"
                       <=> Available(x) < req[p].quantity)
             /\ (req[p].op = "put" /\ Steps(p) /\ resp'[p].status \in {404, 409})
                => UNCHANGED dbvars
             /\ Commits(p, "put", 200)
                => StoredQuantity(cart_items', c, x) = req[p].quantity]_vars

\* C13: each owner has at most one open cart: whenever a cart is created or
\* changed, an open cart has an owner and that owner has no other open cart.
C13_OneOpenCartPerOwner ==
    [][\A c \in CartIds :
          (carts'[c] # carts[c] /\ carts'[c].status = "open") =>
             /\ carts'[c].user_id \in Users
             /\ \A d \in CartIds \ {c} :
                   ~(carts'[d].status = "open" /\ carts'[d].user_id = carts'[c].user_id)]_vars

\* C14: cart access is gated to the owning identity: a request observes a
\* cart (is answered with its contents or its order) or changes the store on
\* behalf of a cart only when it carries an authenticated identity and that
\* identity owns the cart.
C14_CartAccessByOwnerOnly ==
    [][\A p \in Procs :
          (/\ req[p].op \in {"add", "put", "remove", "clear", "checkout"}
           /\ Steps(p)
           /\ (dbvars' # dbvars \/ (resp'[p] # resp[p] /\ resp'[p].kind \in {"Cart", "Order"})))
          => /\ req[p].user_id \in Users
             /\ req[p].user_id = carts[req[p].cart_id].user_id]_vars

\* The identity a request proves: the subject of a Bearer token that is
\* signed, no older than the configured lifetime, and names an existing user.
Caller(r) ==
    IF /\ r.header.scheme = "Bearer"
       /\ r.header.signed
       /\ now - r.header.iat <= JWT_ACCESS_TOKEN_EXPIRES
       /\ \E u \in users : u.id = r.header.sub
    THEN r.header.sub
    ELSE NoUser

\* Worker p serves a whole request of kind op in this step.
Serves(p, op) == pc[p] = "idle" /\ pc'[p] = "done" /\ req'[p].op = op

\* C15: order access is gated to the owner: get-order returns the order only
\* to the authenticated user who owns it and answers any other authenticated
\* user with the NotFound it gives for an id that names no order; list-orders
\* returns only the caller's orders; an order made by checkout is owned by the
\* user who made the request.
C15_OrderAccessByOwner ==
    [][\A p \in Procs :
          LET r == req'[p]
              who == Caller(r)
          IN /\ (Serves(p, "order_detail") /\ who # NoUser) =>
                   IF \E o \in orders : o.id = r.order_id /\ o.user_id = who
                   THEN resp'[p].status = 200 /\ resp'[p].body.id = r.order_id
                   ELSE resp'[p] = [status |-> 404, kind |-> "NotFound",
                                    body |-> "Order not found"]
             /\ (Serves(p, "order_list") /\ resp'[p].status = 200) =>
                   /\ who # NoUser
                   /\ \A i \in DOMAIN resp'[p].body.items :
                         \E o \in orders :
                            o.id = resp'[p].body.items[i].id /\ o.user_id = who
             /\ (Serves(p, "orders_checkout") /\ resp'[p].status = 201) =>
                   /\ who # NoUser
                   /\ orders' # orders
                   /\ \A o \in orders' \ orders : o.user_id = who]_vars

\* C15 witness: a user has asked for an order that exists and belongs to
\* another user, and was answered NotFound.
C15_Witness ==
    \E p \in Procs :
        /\ pc[p] = "done" /\ req[p].op = "order_detail"
        /\ resp[p].status = 404
        /\ req[p].user_id # NoUser
        /\ \E o \in orders : o.id = req[p].order_id /\ o.user_id # req[p].user_id

ProtectedOps == {"me", "orders_checkout", "order_list", "order_detail"}

\* C16: a handler behind require_auth runs only for a request whose Bearer
\* token is untampered, no older than the configured lifetime and names an
\* existing user, and then runs as exactly that user; any other request is
\* answered unauthorized, the handler does not run and no state changes.
C16_RequireAuth ==
    [][\A p \in Procs :
          (pc[p] = "idle" /\ pc'[p] = "done" /\ req'[p].op \in ProtectedOps) =>
             LET h == req'[p].header
                 valid == /\ h.scheme = "Bearer"
                          /\ h.signed
                          /\ now - h.iat <= JWT_ACCESS_TOKEN_EXPIRES
                          /\ \E u \in users : u.id = h.sub
             IN IF valid
                THEN /\ req'[p].user_id = h.sub
                     /\ resp'[p].status # 401
                     /\ req'[p].op = "me" => resp'[p].body.id = h.sub
                ELSE /\ resp'[p].status = 401 /\ resp'[p].kind = "Unauthorized"
                     /\ req'[p].user_id = NoUser
                     /\ UNCHANGED <<dbvars, seq, users>>]_vars

\* C16 witness: a correctly signed token of an existing user has been refused
\* because it is older than the lifetime.
C16_Witness ==
    \E p \in Procs :
        /\ pc[p] = "done" /\ req[p].op \in ProtectedOps
        /\ resp[p].status = 401
        /\ req[p].header.signed
        /\ \E u \in users : u.id = req[p].header.sub
        /\ now - req[p].header.iat > JWT_ACCESS_TOKEN_EXPIRES

\* C17: a registration whose email equals an existing account's email ignoring
\* case is answered EmailTaken and creates no account; no two accounts ever
\* have emails that are equal ignoring case.
C17_EmailTakenIgnoringCase ==
    [][/\ \A p \in Procs :
             (req'[p].op = "register" /\ Steps(p) /\ pc'[p] = "done"
              /\ \E u \in users : lower(u.email) = lower(req'[p].email))
             => /\ resp'[p].status = 409 /\ resp'[p].kind = "EmailTaken"
                /\ users' = users
       /\ \A u, v \in users' : lower(u.email) = lower(v.email) => u = v]_vars

\* C18: a login with an unknown email and a login with a wrong password get
\* the same answer (InvalidCredentials, no token) and change nothing; a login
\* with the right password, the email in any letter case, gets a token for
\* that account.
C18_LoginIndistinguishable ==
    [][\A p \in Procs :
          Serves(p, "login") =>
             LET acct == {u \in users : lower(u.email) = lower(req'[p].email)} IN
                IF \E u \in acct : verify_password(req'[p].password, u.password_hash)
                THEN /\ resp'[p].status = 200
                     /\ resp'[p].body.access_token.signed
                     /\ \E u \in acct : resp'[p].body.access_token.sub = u.id
                ELSE /\ resp'[p] = [status |-> 401, kind |-> "InvalidCredentials",
                                    body |-> "Invalid credentials"]
                     /\ UNCHANGED <<dbvars, seq, users>>]_vars

\* C18 witness: a login that spelled the email with a capital letter has
\* received a token.
C18_Witness ==
    \E p \in Procs :
        /\ pc[p] = "done" /\ req[p].op = "login"
        /\ req[p].email # lower(req[p].email)
        /\ resp[p].status = 200

\* C19: creating a product whose SKU an existing product has is answered
\* DuplicateSku and leaves the catalog unchanged, also when two requests with
\* the same SKU run concurrently; no two products ever share a SKU.
C19_DuplicateSku ==
    [][/\ \A p \in Procs :
             (req'[p].op = "product_create" /\ Steps(p) /\ pc'[p] = "done"
              /\ \E x \in Products : products[x].found /\ products[x].sku = req'[p].sku)
             => /\ resp'[p].status = 409 /\ resp'[p].kind = "DuplicateSku"
                /\ products' = products
       /\ \A x, y \in Products :
             (products'[x].found /\ products'[y].found
              /\ products'[x].sku = products'[y].sku) => x = y]_vars

\* What an order reports for its items: per item the product id, the product
\* name, the quantity, the unit price and the line total.
Reported(o) ==
    LET items == _serialize_order(o).items IN
       [i \in DOMAIN items |->
           [product_id |-> items[i].product.id, name |-> items[i].product.name,
            quantity |-> items[i].quantity,
            unit_price_cents |-> items[i].unit_price_cents,
            line_total_cents |-> items[i].line_total_cents]]

\* C20: an order's items are snapshots: no step modifies or deletes an
\* existing order or order item, and what an order reports for its items
\* (product id, name, quantity, unit price, line total) is the same after
\* every later step, a change of the product's name, price or active flag
\* included.
C20_OrderItemsAreSnapshots ==
    [][\A o \in orders :
          /\ o \in orders'
          /\ \A oi \in order_items : oi \in order_items'
          /\ Reported(o)' = Reported(o)]_vars

\* C21: checkout validates and applies the lines of a cart in ascending order
\* of their creation: when it refuses the cart for an unavailable product, the
\* product it names is that of the earliest-created failing line, and when it
\* succeeds the order items follow the cart lines in creation order.
C21_CheckoutInCreationOrder ==
    [][\A p \in Procs :
          Serves(p, "orders_checkout") =>
             LET u == req'[p].user_id
                 lines == {ci \in cart_items : carts[ci.cart_id].user_id = u
                                               /\ carts[ci.cart_id].status = "ACTIVE"}
                 failing == {ci \in lines : ~products[ci.product_id].found
                                            \/ ~products[ci.product_id].active}
             IN /\ resp'[p].kind = "ProductUnavailable" =>
                      \E ci \in failing :
                         /\ ci.product_id = resp'[p].body
                         /\ \A cj \in failing : ci.id <= cj.id
                /\ resp'[p].status = 201 =>
                      \A ci, cj \in lines :
                         ci.id < cj.id =>
                            \E oi, oj \in order_items' \ order_items :
                               /\ oi.product_id = ci.product_id
                               /\ oj.product_id = cj.product_id
                               /\ oi.id < oj.id]_vars

\* C22: the inventory check applies only to products whose inventory is
\* tracked: add_item and set_item_quantity never answer InsufficientInventory
\* for an active product that has no inventory record.
C22_UntrackedNeverInsufficient ==
    \A p \in Procs :
       /\ req[p].op \in {"add", "put"}
       /\ resp[p].kind = "InsufficientInventory"
       => inventory[req[p].product_id].tracked

\* C23: a cart read (GET /carts/<id>, and the cart returned by add_item,
\* set_item_quantity and remove_item) reports for every line the quantity
\* stored on that cart line, and a subtotal that is the sum over the lines of
\* stored quantity x unit price captured at add-time.
C23_CartReadReportsStoredLines ==
    [][\A p \in Procs :
          (pc[p] \in {"get_read", "add_read", "put_read", "remove_read"}
           /\ resp'[p].kind = "Cart")
          => LET lines == {ci \in View(p).cart_items : ci.cart_id = req[p].cart_id}
                 items == resp'[p].body.items
             IN /\ Len(items) = Cardinality(lines)
                /\ \A i \in DOMAIN items :
                      \E ci \in lines : /\ ci.id = items[i].id
                                        /\ items[i].quantity = ci.quantity
                /\ resp'[p].body.subtotal_cents = SumLineValue(lines)]_vars

\* C24: remove_item deletes exactly the line of the given product and answers
\* NotFound, changing nothing, when the cart has no such line; clear deletes
\* all of the cart's lines and keeps the cart open; and no add_item,
\* set_item_quantity, remove_item or clear changes the inventory, an order or
\* order item, the status of any cart, or the lines of another cart.
C24_CartMutationFrame ==
    [][\A p \in Procs :
          LET c == req[p].cart_id
              x == req[p].product_id
          IN /\ (pc[p] = "commit" /\ pc'[p] = "done"
                 /\ req[p].op \in {"add", "put", "remove", "clear"})
                => /\ inventory' = inventory
                   /\ orders' = orders
                   /\ order_items' = order_items
                   /\ \A d \in CartIds : carts'[d].status = carts[d].status
                   /\ {ci \in cart_items' : ci.cart_id # c}
                         = {ci \in cart_items : ci.cart_id # c}
             /\ (pc[p] = "remove_delete" /\ pc'[p] \in {"commit", "remove_touch"})
                => /\ resp'[p].status = 404
                         <=> LinesOf(View(p).cart_items, c, x) = {}
                   /\ resp'[p].status = 404 => tx'[p] = <<>>
             /\ Commits(p, "remove", 200)
                => /\ LinesOf(cart_items, c, x) # {}
                   /\ cart_items' = cart_items \ LinesOf(cart_items, c, x)
             /\ Commits(p, "remove", 404) => dbvars' = dbvars
             /\ (pc[p] = "clear_delete" /\ pc'[p] = "clear_touch")
                => ItemsOfCart(View(p)', c) = {}
             /\ Commits(p, "clear", 200)
                => /\ {ci \in cart_items' : ci.cart_id = c} \subseteq cart_items
                   /\ carts[c].status = "open" => carts'[c].status = "open"]_vars

\* A removal answered 200 whose cart keeps the line of another product.
C24_Witness ==
    \E p \in Procs :
       /\ pc[p] = "done" /\ req[p].op = "remove" /\ resp[p].status = 200
       /\ Len(resp[p].body.items) > 0
       /\ LinesOf(cart_items, req[p].cart_id, req[p].product_id) = {}
       /\ \E ci \in cart_items : ci.cart_id = req[p].cart_id

\* C25: every cart line has quantity >= 1 in every reachable state: add_item
\* and set_item_quantity with a quantity <= 0 are answered as a Validation
\* failure with no statement run, and no sequence of add_item,
\* set_item_quantity, remove_item, clear and checkout leaves a line with
\* quantity 0 or less.
C25_LineQuantityPositive ==
    /\ \A ci \in cart_items : ci.quantity >= 1
    /\ \A p \in Procs :
          /\ \A ci \in View(p).cart_items : ci.quantity >= 1
          /\ (req[p].op \in {"add", "put"} /\ req[p].quantity <= 0)
             => /\ pc[p] = "done"
                /\ resp[p].kind = "Validation"
                /\ tx[p] = <<>>

\* An add or a put of quantity 0 has been refused while the cart holds lines.
C25_Witness ==
    \E p \in Procs :
       /\ pc[p] = "done" /\ req[p].op \in {"add", "put"}
       /\ req[p].quantity = 0 /\ resp[p].status = 422
       /\ \E ci \in cart_items : ci.cart_id = req[p].cart_id

====
